---- MODULE Spec2Model ----
(***************************************************************************)
(* A model of the bespoke logic of yolort: the checkpoint conversion       *)
(* utility (load_from_ultralytics, ModuleStateUpdate, rgetattr), the input *)
(* transform (YOLOTransform), the path aggregation network and the export  *)
(* shims for non-maximum suppression.                                      *)
(*                                                                         *)
(* The components do not interact, so each has its own variables and its   *)
(* own specification; a specification keeps the variables of the other     *)
(* components at their idle values.                                        *)
(***************************************************************************)
EXTENDS Integers, Sequences, FiniteSets, TLC

VARIABLES
    \* rgetattr (src/yolort/utils/update_module_state.py:174-183)
    rg_pc,      \* "call" before the call, "done" after it
    rg_obj,     \* the root object
    rg_attr,    \* the list of attribute names
    rg_args,    \* the optional default (*args): <<>> or <<default>>
    rg_res,     \* the outcome of the call
    \* ModuleStateUpdate.attach_parameters_block (update_module_state.py:160-164)
    ab_pc,      \* "call" before the call, "done" after it
    ab_sd,      \* state_dict: the checkpoint's nn.Sequential
    ab_name,    \* the target parameter name, a string of characters
    ab_maps,    \* block_maps: None or a dictionary
    ab_res,     \* the outcome of the call
    \* ModuleStateUpdate.updating (update_module_state.py:121-158)
    mu_pc,      \* "call", "loop", "returned" or "raised"
    mu_self,    \* the ModuleStateUpdate: block maps, head_ind, head_name
    mu_model,   \* self.model: the 8 lists of named parameters and buffers
    mu_model0,  \* the model as it was built (history)
    mu_arg,     \* the checkpoint passed to updating (a reference)
    mu_sd,      \* the local state_dict, after obtain_module_sequential
                \* (a reference, 0 before it is set)
    mu_phase,   \* which of the 8 loops is running
    mu_idx,     \* the position in that loop
    mu_exc,     \* the exception that left updating, "none" if none
    \* load_from_ultralytics (update_module_state.py:11-66)
    lf_pc,      \* "call", "load", "construct", "returned" or "raised"
    lf_version, \* the version argument
    lf_file,    \* what checkpoint_path holds
    lf_ckpt,    \* checkpoint_yolov5 and the values read from it
    lf_loaded,  \* whether the checkpoint was loaded (history)
    lf_built,   \* whether a model was built (history)
    lf_res,     \* the outcome of the call
    \* YOLOTransform.batch_images (transform.py:216-252)
    bi_pc,      \* "call" before the call, "done" after it
    bi_list,    \* tensor_list
    bi_div,     \* size_divisible
    bi_fill,    \* fill_color
    bi_res,     \* the outcome of the call
    \* YOLOTransform.forward (transform.py:80-141)
    fw_pc,      \* "call", "loop", "batch", "targets", "returned" or "raised"
    fw_self,    \* the YOLOTransform: its sizes, stride, fill colour, mode
    fw_heap,    \* the lists and dictionaries, by reference
    fw_heap0,   \* the heap as the caller passed it (history)
    fw_targets_arg, \* the targets argument: a reference, 0 for None
    fw_images,  \* the local images (a reference, 0 before it is set)
    fw_targets, \* the local targets (a reference, 0 for None)
    fw_i,       \* the loop index i
    fw_batched, \* whether batch_images was called (history)
    fw_out,     \* the NestedTensor, once made
    fw_res,     \* the outcome of the call
    \* PathAggregationNetwork (path_aggregation_network.py:43-113)
    pn_pc,      \* "new", "built", "descended", "returned" or "raised"
    pn_in,      \* in_channels_list
    pn_x,       \* the feature maps passed to forward
    pn_self,    \* the network: inner_blocks and layer_blocks, None before
    pn_inners,  \* inners
    pn_res,     \* the outcome of the constructor, then of forward
    \* NonMaxSupressionOp.forward (head_helper.py:102-130)
    nm_pc,      \* "call" before the call, "done" after it
    nm_batch,   \* scores.shape[0]
    nm_max,     \* max_output_boxes_per_class
    nm_res,     \* the outcome of the call
    \* FakePostProcess (head_helper.py:38-97)
    fk_pc,      \* "new", "built" or "done"
    fk_args,    \* the arguments of the constructor
    fk_self,    \* the attributes of the module, None before it is built
    fk_x,       \* the tensor passed to forward
    fk_nms,     \* the arguments NonMaxSupressionOp was called with (history)
    fk_res,     \* the outcome of forward
    \* PredictorTRT.postprocessing (y_tensorrt.py:122-142)
    pt_pc,      \* "loop" in the loop, "done" after the return
    pt_self,    \* score_thresh, iou_thresh (hundredths), detections_per_img
    pt_logits,  \* pred_logits: per batch element, the rows of its anchors
    pt_idx,     \* idx
    pt_detections, \* detections
    pt_res      \* the outcome of the call

varsR == <<rg_pc, rg_obj, rg_attr, rg_args, rg_res>>

varsA == <<ab_pc, ab_sd, ab_name, ab_maps, ab_res>>

varsU == <<mu_pc, mu_self, mu_model, mu_model0, mu_arg, mu_sd, mu_phase, mu_idx, mu_exc>>

varsL == <<lf_pc, lf_version, lf_file, lf_ckpt, lf_loaded, lf_built, lf_res>>

varsB == <<bi_pc, bi_list, bi_div, bi_fill, bi_res>>

varsF == <<fw_pc, fw_self, fw_heap, fw_heap0, fw_targets_arg, fw_images, fw_targets, fw_i,
          fw_batched, fw_out, fw_res>>

varsP == <<pn_pc, pn_in, pn_x, pn_self, pn_inners, pn_res>>

varsN == <<nm_pc, nm_batch, nm_max, nm_res>>

varsK == <<fk_pc, fk_args, fk_self, fk_x, fk_nms, fk_res>>

varsT == <<pt_pc, pt_self, pt_logits, pt_idx, pt_detections, pt_res>>

vars == <<varsR, varsA, varsU, varsL, varsB, varsF, varsP, varsN, varsK, varsT>>

-----------------------------------------------------------------------------
(* Python values shared by the components.                                 *)

\* The empty attribute dictionary / the empty mapping.
NoAttrs == [n \in {} |-> 0]

\* The outcome of a call: a returned value or a raised exception.
Returned(v) == [kind |-> "returned", val |-> v]
Raised(e) == [kind |-> "raised", exc |-> e]
NotCalled == [kind |-> "none"]

\* seq[k:] of Python, k >= 0 (0-based k, 1-based TLA+ sequences).
SliceFrom(s, k) == IF k >= Len(s) THEN <<>> ELSE SubSeq(s, k + 1, Len(s))

-----------------------------------------------------------------------------
(* Objects.  An object is a record [id, attrs, shape, val]: id is what the  *)
(* object is (a tensor, a module, a container), attrs maps each attribute  *)
(* name it has to the object the attribute holds, and a tensor has a shape *)
(* (its number of elements) and a value.  A name is a sequence of          *)
(* characters.  The shapes of the model are 2 and 3: neither broadcasts to *)
(* the other, so copy_ between them is a shape mismatch.                   *)

MaxDepth == 2

MaxPath == 3

AttrNames == {<<"w">>, <<"b">>}

TensorVals == {1, 2}

Obj(id, attrs) == [id |-> id, attrs |-> attrs, shape |-> 0, val |-> 0]

Tensor(shape, val) == [id |-> "tensor", attrs |-> NoAttrs, shape |-> shape, val |-> val]

None == Obj("None", NoAttrs)

RECURSIVE Objects(_)
Objects(d) ==
    IF d = 0
    THEN {Tensor(2, v) : v \in TensorVals}
    ELSE LET sub == Objects(d - 1)
         IN  sub \cup UNION {{Obj("module", f) : f \in [S -> sub]} : S \in SUBSET AttrNames}

RECURSIVE SeqsUpTo(_, _)
SeqsUpTo(S, n) ==
    IF n = 0
    THEN {<<>>}
    ELSE LET shorter == SeqsUpTo(S, n - 1)
         IN  shorter \cup {Append(s, x) : s \in {t \in shorter : Len(t) = n - 1}, x \in S}

-----------------------------------------------------------------------------
(* Strings.  A string is a sequence of one-character strings, so that      *)
(* str.split, int() and str() are computed as Python computes them.        *)

Digits == <<"0", "1", "2", "3", "4", "5", "6", "7", "8", "9">>

IsDigit(c) == \E k \in 1..10 : Digits[k] = c

DigitVal(c) == (CHOOSE k \in 1..10 : Digits[k] = c) - 1

\* str.split(sep) for a one-character separator: the pieces between the
\* separators, empty pieces included; the empty string gives [""].
RECURSIVE split_from(_, _, _, _, _)
split_from(s, sep, i, cur, acc) ==
    IF i > Len(s)
    THEN Append(acc, cur)
    ELSE IF s[i] = sep
         THEN split_from(s, sep, i + 1, <<>>, Append(acc, cur))
         ELSE split_from(s, sep, i + 1, Append(cur, s[i]), acc)

split(s, sep) == split_from(s, sep, 1, <<>>, <<>>)

\* int(s) for a string of the model's alphabet: the decimal value of a
\* non-empty string of digits, ValueError for anything else.
RECURSIVE int_from(_, _, _)
int_from(s, i, acc) ==
    IF i > Len(s) THEN acc ELSE int_from(s, i + 1, 10 * acc + DigitVal(s[i]))

int(s) ==
    IF s # <<>> /\ \A i \in 1..Len(s) : IsDigit(s[i])
    THEN Returned(int_from(s, 1, 0))
    ELSE Raised("ValueError")

\* str(n) for n >= 0: the registered name of the n-th child of a container.
RECURSIVE str(_)
str(n) == IF n < 10 THEN <<Digits[n + 1]>> ELSE str(n \div 10) \o <<Digits[(n % 10) + 1]>>

\* nn.Sequential / nn.ModuleList: a module whose children are registered
\* under the names "0", "1", ... in order.
Container(id, items) ==
    Obj(id, [k \in {str(i - 1) : i \in 1..Len(items)} |->
                items[(CHOOSE i \in 1..Len(items) : str(i - 1) = k)]])

\* len(container) and container[ind] for ind >= 0: IndexError out of range.
ContainerLen(c) == Cardinality({k \in DOMAIN c.attrs : int(k).kind = "returned"})

GetItem(c, ind) ==
    IF ind < ContainerLen(c)
    THEN Returned(c.attrs[str(ind)])
    ELSE Raised("IndexError")

\* A dictionary argument that may be None.
NoneDict == [isNone |-> TRUE, d |-> NoAttrs]
Dict(d) == [isNone |-> FALSE, d |-> d]

-----------------------------------------------------------------------------
(* rgetattr: reduce(_getattr, [obj] + attr), with _getattr(obj, attr) =    *)
(* getattr(obj, attr, *args).                                              *)

\* The mutant of _getattr: an absent attribute is skipped, not an error.
\* (Defined for the check of C3.)
_getattr_skips(obj, attr, args) ==
    IF attr \in DOMAIN obj.attrs
    THEN Returned(obj.attrs[attr])
    ELSE Returned(obj)

\* getattr(obj, attr, *args): the attribute, else the default when one is
\* given, else AttributeError.
_getattr(obj, attr, args) ==
    IF attr \in DOMAIN obj.attrs
    THEN Returned(obj.attrs[attr])
    ELSE IF Len(args) > 0
         THEN Returned(args[1])
         ELSE Raised("AttributeError")

\* functools.reduce over the list [obj] + attr: the accumulator starts as the
\* first element of the list and is combined with each later element in
\* order; an exception of the combining function ends the reduction.
RECURSIVE reduce_from(_, _, _, _)
reduce_from(acc, lst, i, args) ==
    IF i > Len(lst)
    THEN Returned(acc)
    ELSE LET step == _getattr(acc, lst[i], args)
         IN  IF step.kind = "raised"
             THEN step
             ELSE reduce_from(step.val, lst, i + 1, args)

rgetattr(obj, attr, args) ==
    LET lst == <<obj>> \o attr
    IN  reduce_from(lst[1], lst, 2, args)

\* The state before a call of rgetattr: any object tree, any list of names,
\* with or without a default.
InitR ==
    /\ rg_pc = "call"
    /\ rg_obj \in Objects(MaxDepth)
    /\ rg_attr \in SeqsUpTo(AttrNames, MaxPath)
    /\ rg_args \in {<<>>, <<None>>}
    /\ rg_res = NotCalled

IdleR ==
    /\ rg_pc = "idle"
    /\ rg_obj = None
    /\ rg_attr = <<>>
    /\ rg_args = <<>>
    /\ rg_res = NotCalled

CallRgetattr ==
    /\ rg_pc = "call"
    /\ rg_res' = rgetattr(rg_obj, rg_attr, rg_args)
    /\ rg_pc' = "done"
    /\ UNCHANGED <<rg_obj, rg_attr, rg_args>>
    /\ UNCHANGED <<varsA, varsU, varsL, varsB, varsF, varsP, varsN, varsK, varsT>>

NextR == CallRgetattr

-----------------------------------------------------------------------------
(* ModuleStateUpdate.attach_parameters_block.                              *)

\* The truth value of block_maps in "if block_maps": None and the empty
\* dictionary are false.
Truthy(block_maps) == ~block_maps.isNone /\ DOMAIN block_maps.d # {}

\* block_maps[key]: KeyError for a missing key.
DictGet(block_maps, key) ==
    IF key \in DOMAIN block_maps.d
    THEN Returned(block_maps.d[key])
    ELSE Raised("KeyError")

\* The mutant of block_index: the block map is never consulted.
block_index_unmapped(keys, block_maps) == int(keys[1])

\* ind = int(block_maps[keys[0]]) if block_maps else int(keys[0])
block_index(keys, block_maps) ==
    IF Truthy(block_maps)
    THEN LET v == DictGet(block_maps, keys[1])
         IN  IF v.kind = "raised" THEN v ELSE int(v.val)
    ELSE int(keys[1])

\* keys[1:]
rest_of_keys(keys) == SliceFrom(keys, 1)

attach_parameters_block(state_dict, name, block_maps) ==
    LET keys == split(name, ".")
        ind == block_index(keys, block_maps)
    IN  IF ind.kind = "raised"
        THEN ind
        ELSE LET item == GetItem(state_dict, ind.val)
             IN  IF item.kind = "raised"
                 THEN item
                 ELSE rgetattr(item.val, rest_of_keys(keys), <<>>)

\* The checkpoints of the model: sequences of blocks whose parameters are
\* tensors, directly or one submodule down.
\* Submodule number k of a checkpoint: a weight w of shape 2 and a
\* submodule b with a weight w of shape 3, their values telling k.
Block(k) ==
    Obj("module", (<<"w">> :> Tensor(2, 100 + k))
                  @@ (<<"b">> :> Obj("module", (<<"w">> :> Tensor(3, 200 + k)))))

Sequentials ==
    { Container("Sequential", [i \in 1..2 |-> Block(i - 1)]),
      Container("Sequential", <<Block(0), Block(1), Obj("module", NoAttrs)>>),
      Container("Sequential", [i \in 1..11 |-> Block(i - 1)]) }

Alphabet == {"0", "1", ".", "w", "b"}

MaxName == 5

BlockMaps ==
    { NoneDict,
      Dict(NoAttrs),
      Dict((<<"0">> :> <<"1">>)),
      Dict((<<"0">> :> <<"1">>) @@ (<<"1">> :> <<"0">>)),
      Dict((<<"1">> :> <<"1", "0">>) @@ (<<"0">> :> <<"w">>)) }

InitA ==
    /\ ab_pc = "call"
    /\ ab_sd \in Sequentials
    /\ ab_name \in SeqsUpTo(Alphabet, MaxName)
    /\ ab_maps \in BlockMaps
    /\ ab_res = NotCalled

IdleA ==
    /\ ab_pc = "idle"
    /\ ab_sd = None
    /\ ab_name = <<>>
    /\ ab_maps = NoneDict
    /\ ab_res = NotCalled

CallAttachParametersBlock ==
    /\ ab_pc = "call"
    /\ ab_res' = attach_parameters_block(ab_sd, ab_name, ab_maps)
    /\ ab_pc' = "done"
    /\ UNCHANGED <<ab_sd, ab_name, ab_maps>>
    /\ UNCHANGED <<varsR, varsU, varsL, varsB, varsF, varsP, varsN, varsK, varsT>>

NextA == CallAttachParametersBlock

-----------------------------------------------------------------------------
(* ModuleStateUpdate: the constructor's configuration and updating.        *)

head_ind_default == 24

head_name_default == <<"m">>

ModelAttr == <<"m", "o", "d", "e", "l">>

\* The default block maps of the constructor.
inner_block_maps_default ==
    (<<"0">> :> <<"9">>) @@ (<<"1">> :> <<"1", "0">>)
    @@ (<<"3">> :> <<"1", "3">>) @@ (<<"4">> :> <<"1", "4">>)

layer_block_maps_default ==
    (<<"0">> :> <<"1", "7">>) @@ (<<"1">> :> <<"1", "8">>) @@ (<<"2">> :> <<"2", "0">>)
    @@ (<<"3">> :> <<"2", "1">>) @@ (<<"4">> :> <<"2", "3">>)

\* The configuration part of __init__: a block map that is None is replaced
\* by its default, any other is kept as given.
ModuleStateUpdate_config(inner_block_maps, layer_block_maps, head_ind, head_name) ==
    [ inner_block_maps |->
          IF inner_block_maps.isNone THEN Dict(inner_block_maps_default) ELSE inner_block_maps,
      layer_block_maps |->
          IF layer_block_maps.isNone THEN Dict(layer_block_maps_default) ELSE layer_block_maps,
      head_ind |-> head_ind,
      head_name |-> head_name ]

\* obtain_module_sequential: the first nn.Sequential down the .model chain.
RECURSIVE obtain_module_sequential(_)
obtain_module_sequential(state_dict) ==
    IF state_dict.id = "Sequential"
    THEN Returned(state_dict)
    ELSE LET inner == _getattr(state_dict, ModelAttr, <<>>)
         IN  IF inner.kind = "raised" THEN inner ELSE obtain_module_sequential(inner.val)

\* attach_parameters_heads: keys[1] is the index into the head's module list.
attach_parameters_heads(self, state_dict, name) ==
    LET keys == split(name, ".")
    IN  IF Len(keys) < 2
        THEN Raised("IndexError")
        ELSE LET ind == int(keys[2])
             IN  IF ind.kind = "raised"
                 THEN ind
                 ELSE LET detect == GetItem(state_dict, self.head_ind)
                      IN  IF detect.kind = "raised"
                          THEN detect
                          ELSE LET m == _getattr(detect.val, self.head_name, <<>>)
                               IN  IF m.kind = "raised"
                                   THEN m
                                   ELSE LET sub == GetItem(m.val, ind.val)
                                        IN  IF sub.kind = "raised"
                                            THEN sub
                                            ELSE rgetattr(sub.val, SliceFrom(keys, 2), <<>>)

\* Tensor.copy_(src): the destination takes the source's value; a source that
\* is no tensor or has another shape is an error and nothing is written.
copy_(dst, src) ==
    IF src.id # "tensor"
    THEN Raised("TypeError")
    ELSE IF src.shape # dst.shape
         THEN Raised("RuntimeError")
         ELSE Returned(Tensor(dst.shape, src.val))

\* The 8 loops of updating, in order: parameters then buffers of
\* backbone.body, pan.inner_blocks, pan.layer_blocks and head.
Loops == 1..8

\* The checkpoint value a loop looks up for a name.
lookup(self, state_dict, loop, name) ==
    IF loop \in {1, 2} THEN attach_parameters_block(state_dict, name, NoneDict)
    ELSE IF loop \in {3, 4} THEN attach_parameters_block(state_dict, name, self.inner_block_maps)
    ELSE IF loop \in {5, 6} THEN attach_parameters_block(state_dict, name, self.layer_block_maps)
    ELSE attach_parameters_heads(self, state_dict, name)

\* The mutant of updating_step: a failed lookup or copy is swallowed and the
\* loop goes on with the next parameter.
updating_step_swallows(self, model, state_dict, loop, idx) ==
    LET entry == model[loop][idx]
        looked == lookup(self, state_dict, loop, entry.name)
        copied == IF looked.kind = "raised" THEN looked ELSE copy_(entry.val, looked.val)
    IN  IF copied.kind = "raised"
        THEN [pc |-> "loop", model |-> model, idx |-> idx + 1, exc |-> "none"]
        ELSE [pc |-> "loop", model |-> [model EXCEPT ![loop][idx].val = copied.val],
              idx |-> idx + 1, exc |-> "none"]

\* One iteration of a loop of updating: params.data.copy_(attach_...(name)).
\* Nothing catches an exception of the lookup or of the copy.
updating_step(self, model, state_dict, loop, idx) ==
    LET entry == model[loop][idx]
        looked == lookup(self, state_dict, loop, entry.name)
        copied == IF looked.kind = "raised" THEN looked ELSE copy_(entry.val, looked.val)
    IN  IF copied.kind = "raised"
        THEN [pc |-> "raised", model |-> model, idx |-> idx, exc |-> copied.exc]
        ELSE [pc |-> "loop", model |-> [model EXCEPT ![loop][idx].val = copied.val],
              idx |-> idx + 1, exc |-> "none"]

\* The head of a checkpoint: a module list m of 3 modules with a weight each.
Detect ==
    Obj("module", (<<"m">> :> Container("ModuleList",
            [k \in 1..3 |-> Obj("module", (<<"w">> :> Tensor(2, 300 + k - 1)))])))

\* A block whose weight w has another shape than the model's.
BlockOtherShape(k) ==
    Obj("module", (<<"w">> :> Tensor(3, 100 + k))
                  @@ (<<"b">> :> Obj("module", (<<"w">> :> Tensor(3, 200 + k)))))

\* A block without the submodule b.
BlockNoB(k) == Obj("module", (<<"w">> :> Tensor(2, 100 + k)))

Checkpoint ==
    Container("Sequential", [i \in 1..25 |-> IF i = 25 THEN Detect ELSE Block(i - 1)])

\* The checkpoint objects, by reference.  Those passed to updating: a
\* complete one, bare (1) or wrapped in a model object (2), one without the
\* head (3), and ones whose block 9 (4) or block 10 (5) does not fit the
\* model.  The checkpoint is only read, so a variable holds its reference.
Heap ==
    << Checkpoint,
       Obj("Model", (ModelAttr :> Checkpoint)),
       Container("Sequential", [i \in 1..24 |-> Block(i - 1)]),
       Container("Sequential",
           [i \in 1..25 |-> IF i = 25 THEN Detect ELSE IF i = 10 THEN BlockOtherShape(9) ELSE Block(i - 1)]),
       Container("Sequential",
           [i \in 1..25 |-> IF i = 25 THEN Detect ELSE IF i = 11 THEN BlockNoB(10) ELSE Block(i - 1)]) >>

Checkpoints == DOMAIN Heap

RefOf(obj) == CHOOSE r \in DOMAIN Heap : Heap[r] = obj

\* A named parameter or buffer of the model as built: its value is 0.
Entry(name, shape) == [name |-> name, val |-> Tensor(shape, 0)]

\* The named parameters and buffers a loop of updating may meet.
EntriesOf(loop) ==
    IF loop = 1 THEN {Entry(<<"0", ".", "w">>, 2), Entry(<<"1", ".", "b", ".", "w">>, 3)}
    ELSE IF loop = 2 THEN {Entry(<<"0", ".", "b", ".", "w">>, 3)}
    ELSE IF loop = 3 THEN {Entry(<<"0", ".", "w">>, 2), Entry(<<"1", ".", "b", ".", "w">>, 3),
                           Entry(<<"2", ".", "w">>, 2)}
    ELSE IF loop = 4 THEN {Entry(<<"0", ".", "b", ".", "w">>, 3)}
    ELSE IF loop = 5 THEN {Entry(<<"0", ".", "w">>, 2), Entry(<<"4", ".", "b", ".", "w">>, 3)}
    ELSE IF loop = 6 THEN {Entry(<<"4", ".", "w">>, 2)}
    ELSE IF loop = 7 THEN {Entry(<<"h", ".", "0", ".", "w">>, 2), Entry(<<"h", ".", "w">>, 2)}
    ELSE {Entry(<<"h", ".", "2", ".", "w">>, 2)}

MaxEntries == 3

\* The models with at most n parameters and buffers over the 8 loops.
RECURSIVE Models(_)
Models(n) ==
    IF n = 0
    THEN {[g \in Loops |-> <<>>]}
    ELSE LET smaller == Models(n - 1)
         IN  smaller \cup
             UNION {{[m EXCEPT ![g] = Append(m[g], e)] : m \in smaller, e \in EntriesOf(g)} :
                        g \in Loops}

\* The block maps given to the constructor: None (the default is used), an
\* empty dictionary, or one of its own.
BlockMapArgs == {NoneDict, Dict(NoAttrs), Dict((<<"0">> :> <<"9">>))}

\* A ModuleStateUpdate as constructed, about to update from a checkpoint.
InitU ==
    /\ mu_pc = "call"
    /\ \E inner \in BlockMapArgs :
          mu_self = ModuleStateUpdate_config(inner, NoneDict, head_ind_default, head_name_default)
    /\ mu_model \in {m \in Models(MaxEntries) : \E g \in Loops : m[g] # <<>>}
    /\ mu_model0 = mu_model
    /\ mu_arg \in Checkpoints
    /\ mu_sd = 0
    /\ mu_phase = 0
    /\ mu_idx = 0
    /\ mu_exc = "none"

IdleU ==
    /\ mu_pc = "idle"
    /\ mu_self = NoneDict
    /\ mu_model = <<>>
    /\ mu_model0 = mu_model
    /\ mu_arg = 0
    /\ mu_sd = 0
    /\ mu_phase = 0
    /\ mu_idx = 0
    /\ mu_exc = "none"

\* state_dict = obtain_module_sequential(state_dict)
UpdatingBegin ==
    /\ mu_pc = "call"
    /\ LET sd == obtain_module_sequential(Heap[mu_arg])
       IN  IF sd.kind = "raised"
           THEN /\ mu_pc' = "raised"
                /\ mu_exc' = sd.exc
                /\ UNCHANGED <<mu_sd, mu_phase, mu_idx>>
           ELSE /\ mu_pc' = "loop"
                /\ mu_sd' = RefOf(sd.val)
                /\ mu_phase' = 1
                /\ mu_idx' = 1
                /\ UNCHANGED mu_exc
    /\ UNCHANGED <<mu_self, mu_model, mu_model0, mu_arg>>
    /\ UNCHANGED <<varsR, varsA, varsL, varsB, varsF, varsP, varsN, varsK, varsT>>

\* One parameter or buffer of the running loop.
UpdatingCopy ==
    /\ mu_pc = "loop"
    /\ mu_idx <= Len(mu_model[mu_phase])
    /\ \E out \in {updating_step(mu_self, mu_model, Heap[mu_sd], mu_phase, mu_idx)} :
           /\ mu_pc' = out.pc
           /\ mu_model' = out.model
           /\ mu_idx' = out.idx
           /\ mu_exc' = out.exc
    /\ UNCHANGED <<mu_self, mu_model0, mu_arg, mu_sd, mu_phase>>
    /\ UNCHANGED <<varsR, varsA, varsL, varsB, varsF, varsP, varsN, varsK, varsT>>

\* The running loop is exhausted: the next loop starts.
UpdatingNextLoop ==
    /\ mu_pc = "loop"
    /\ mu_idx > Len(mu_model[mu_phase])
    /\ mu_phase < 8
    /\ mu_phase' = mu_phase + 1
    /\ mu_idx' = 1
    /\ UNCHANGED <<mu_pc, mu_self, mu_model, mu_model0, mu_arg, mu_sd, mu_exc>>
    /\ UNCHANGED <<varsR, varsA, varsL, varsB, varsF, varsP, varsN, varsK, varsT>>

\* The last loop is exhausted: updating returns.
UpdatingReturn ==
    /\ mu_pc = "loop"
    /\ mu_idx > Len(mu_model[mu_phase])
    /\ mu_phase = 8
    /\ mu_pc' = "returned"
    /\ UNCHANGED <<mu_self, mu_model, mu_model0, mu_arg, mu_sd, mu_phase, mu_idx, mu_exc>>
    /\ UNCHANGED <<varsR, varsA, varsL, varsB, varsF, varsP, varsN, varsK, varsT>>

NextU == UpdatingBegin \/ UpdatingCopy \/ UpdatingNextLoop \/ UpdatingReturn

-----------------------------------------------------------------------------
(* load_from_ultralytics.                                                  *)

SupportedVersions == {"r3.1", "r4.0", "r6.0"}

\* The mutant of version_supported: the assertion lets every version pass.
version_supported_any(version) == TRUE

\* assert version in ["r3.1", "r4.0", "r6.0"]
version_supported(version) == version \in SupportedVersions

\* The parameters of ModuleStateUpdate.__init__ (besides self).
InitParameters ==
    {"depth_multiple", "width_multiple", "version", "num_classes", "inner_block_maps",
     "layer_block_maps", "head_ind", "head_name", "use_p6"}

\* The keywords load_from_ultralytics passes to ModuleStateUpdate.
CallKeywords ==
    {"arch", "depth_multiple", "width_multiple", "version", "num_classes",
     "inner_block_maps", "layer_block_maps", "use_p6"}

\* Binding the keywords of a call to the parameters of the function: a
\* keyword that names no parameter is a TypeError, raised before the body of
\* the function runs.
bind_keywords(parameters, keywords) ==
    IF keywords \subseteq parameters THEN Returned(keywords) ELSE Raised("TypeError")

\* use_p6 = (len(strides) == 4)
use_p6_of(strides) == Len(strides) = 4

\* The block maps load_from_ultralytics passes: the same for both values of
\* use_p6.
inner_block_maps_of(use_p6) == Dict(inner_block_maps_default)

layer_block_maps_of(use_p6) == Dict(layer_block_maps_default)

\* The model yolo.build_model returns: one parameter in each parameter loop.
build_model(depth_multiple, width_multiple, version, num_classes, use_p6) ==
    [g \in Loops |->
        IF g = 1 THEN <<Entry(<<"0", ".", "w">>, 2)>>
        ELSE IF g = 3 THEN <<Entry(<<"0", ".", "w">>, 2)>>
        ELSE IF g = 5 THEN <<Entry(<<"4", ".", "b", ".", "w">>, 3)>>
        ELSE IF g = 7 THEN <<Entry(<<"h", ".", "0", ".", "w">>, 2)>>
        ELSE <<>>]

\* get_yolov5_size(depth_multiple, width_multiple): a value of the two.
get_yolov5_size(depth_multiple, width_multiple) == <<"size", depth_multiple, width_multiple>>

\* updating as a whole: the 8 loops from a position on, until the last loop
\* is exhausted or a step raises.
RECURSIVE updating_from(_, _, _, _, _)
updating_from(self, model, state_dict, loop, idx) ==
    IF idx > Len(model[loop])
    THEN IF loop = 8
         THEN [pc |-> "returned", model |-> model, idx |-> idx, exc |-> "none"]
         ELSE updating_from(self, model, state_dict, loop + 1, 1)
    ELSE LET out == updating_step(self, model, state_dict, loop, idx)
         IN  IF out.pc = "raised"
             THEN out
             ELSE updating_from(self, out.model, state_dict, loop, out.idx)

updating(self, model, state_dict) ==
    LET sd == obtain_module_sequential(state_dict)
    IN  IF sd.kind = "raised"
        THEN [pc |-> "raised", model |-> model, idx |-> 0, exc |-> sd.exc]
        ELSE updating_from(self, model, sd.val, 1, 1)

\* Lines 42-66: construct the ModuleStateUpdate, update it from the
\* checkpoint and return the dictionary.  built tells whether build_model
\* was reached.
construct_update_return(ckpt, version) ==
    LET use_p6 == use_p6_of(ckpt.strides)
        bound == bind_keywords(InitParameters, CallKeywords)
    IN  IF bound.kind = "raised"
        THEN [built |-> FALSE, res |-> bound]
        ELSE LET self == ModuleStateUpdate_config(inner_block_maps_of(use_p6),
                              layer_block_maps_of(use_p6), head_ind_default, head_name_default)
                 model == build_model(ckpt.depth_multiple, ckpt.width_multiple, version,
                                      ckpt.nc, use_p6)
                 out == updating(self, model, Heap[ckpt.model])
             IN  IF out.pc = "raised"
                 THEN [built |-> TRUE, res |-> Raised(out.exc)]
                 ELSE [built |-> TRUE,
                       res |-> Returned(
                           [ num_classes |-> ckpt.nc,
                             depth_multiple |-> ckpt.depth_multiple,
                             width_multiple |-> ckpt.width_multiple,
                             strides |-> ckpt.strides,
                             anchor_grids |-> ckpt.anchors,
                             use_p6 |-> use_p6,
                             size |-> get_yolov5_size(ckpt.depth_multiple, ckpt.width_multiple),
                             state_dict |-> out.model ])]

Versions == SupportedVersions \cup {"r5.0", "r2.0"}

\* The checkpoint files: their yaml (nc, anchors, depth and width multiples,
\* in hundredths), their strides, and whether the upstream loader can load
\* them.  The model of each is the complete checkpoint, wrapped.
CheckpointFiles ==
    [ nc : {1, 80},
      anchors : {"anchors"},
      depth_multiple : {33, 100},
      width_multiple : {50, 100},
      strides : {<<8, 16, 32>>, <<8, 16, 32, 64>>},
      model : {2},
      loadable : BOOLEAN ]

NoCheckpoint ==
    [nc |-> 0, anchors |-> "none", depth_multiple |-> 0, width_multiple |-> 0,
     strides |-> <<>>, model |-> 0, loadable |-> FALSE]

InitL ==
    /\ lf_pc = "call"
    /\ lf_version \in Versions
    /\ lf_file \in CheckpointFiles
    /\ lf_ckpt = NoCheckpoint
    /\ lf_loaded = FALSE
    /\ lf_built = FALSE
    /\ lf_res = NotCalled

IdleL ==
    /\ lf_pc = "idle"
    /\ lf_version = "r6.0"
    /\ lf_file = NoCheckpoint
    /\ lf_ckpt = NoCheckpoint
    /\ lf_loaded = FALSE
    /\ lf_built = FALSE
    /\ lf_res = NotCalled

\* Line 22: the assertion on the version.
LoadAssertVersion ==
    /\ lf_pc = "call"
    /\ IF version_supported(lf_version)
       THEN lf_pc' = "load" /\ UNCHANGED lf_res
       ELSE lf_pc' = "raised" /\ lf_res' = Raised("AssertionError")
    /\ UNCHANGED <<lf_version, lf_file, lf_ckpt, lf_loaded, lf_built>>
    /\ UNCHANGED <<varsR, varsA, varsU, varsB, varsF, varsP, varsN, varsK, varsT>>

\* Lines 24-29: the upstream loader reads the checkpoint, and the values of
\* its yaml and its strides are read.
LoadCheckpoint ==
    /\ lf_pc = "load"
    /\ lf_loaded' = TRUE
    /\ IF lf_file.loadable
       THEN lf_pc' = "construct" /\ lf_ckpt' = lf_file /\ UNCHANGED lf_res
       ELSE lf_pc' = "raised" /\ lf_res' = Raised("LoadError") /\ UNCHANGED lf_ckpt
    /\ UNCHANGED <<lf_version, lf_file, lf_built>>
    /\ UNCHANGED <<varsR, varsA, varsU, varsB, varsF, varsP, varsN, varsK, varsT>>

\* Lines 31-66.
LoadConstructUpdateReturn ==
    /\ lf_pc = "construct"
    /\ \E out \in {construct_update_return(lf_ckpt, lf_version)} :
          /\ lf_built' = out.built
          /\ lf_res' = out.res
          /\ lf_pc' = out.res.kind
    /\ UNCHANGED <<lf_version, lf_file, lf_ckpt, lf_loaded>>
    /\ UNCHANGED <<varsR, varsA, varsU, varsB, varsF, varsP, varsN, varsK, varsT>>

NextL == LoadAssertVersion \/ LoadCheckpoint \/ LoadConstructUpdateReturn

-----------------------------------------------------------------------------
(* YOLOTransform.batch_images, outside ONNX tracing.  An image is a record *)
(* [shape, data]: shape is the list of its sizes and data maps each index  *)
(* (a tuple of 0-based coordinates) to the element there.                  *)

\* The indices of a tensor of a 3- or 4-dimensional shape.
Indices(shape) ==
    IF Len(shape) = 3
    THEN {<<c, y, x>> : c \in 0..(shape[1] - 1), y \in 0..(shape[2] - 1), x \in 0..(shape[3] - 1)}
    ELSE {<<n, c, y, x>> : n \in 0..(shape[1] - 1), c \in 0..(shape[2] - 1),
                           y \in 0..(shape[3] - 1), x \in 0..(shape[4] - 1)}

Max(a, b) == IF a >= b THEN a ELSE b

Min(a, b) == IF a <= b THEN a ELSE b

\* max_by_axis: maxes starts as the first list and takes, index by index, the
\* maximum with each later list.
RECURSIVE max_by_axis_from(_, _, _)
max_by_axis_from(maxes, the_list, i) ==
    IF i > Len(the_list)
    THEN maxes
    ELSE max_by_axis_from(
             [index \in DOMAIN maxes |->
                 IF index <= Len(the_list[i]) THEN Max(maxes[index], the_list[i][index])
                 ELSE maxes[index]],
             the_list, i + 1)

max_by_axis(the_list) == max_by_axis_from(the_list[1], the_list, 2)

\* The mutant of round_up: rounds down to a multiple of the stride.
round_down(size, stride) == (size \div stride) * stride

\* int(math.ceil(float(size) / stride) * stride) for size >= 0, stride > 0:
\* the sizes of the model are small enough for the floats to be exact.
round_up(size, stride) == ((size + stride - 1) \div stride) * stride

\* batch_shape = [len(tensor_list)] + max_size, with max_size[1] and
\* max_size[2] rounded up to the stride.
batch_shape_of(shapes, size_divisible) ==
    LET max_size == max_by_axis(shapes)
    IN  <<Len(shapes), max_size[1], round_up(max_size[2], size_divisible),
          round_up(max_size[3], size_divisible)>>

\* pad_img[: img.shape[0], : img.shape[1], : img.shape[2]]: the shape of the
\* slice of slot pad_shape.
slice_shape(pad_shape, img_shape) == [d \in 1..3 |-> Min(pad_shape[d], img_shape[d])]

\* The copy loop: image i is copied into the slice of slot i; a slice that has
\* not the image's shape is a RuntimeError of copy_.
RECURSIVE copy_images_from(_, _, _, _)
copy_images_from(data, shape, tensor_list, i) ==
    IF i > Len(tensor_list)
    THEN Returned([shape |-> shape, data |-> data])
    ELSE LET img == tensor_list[i]
         IN  IF slice_shape(SubSeq(shape, 2, 4), img.shape) # img.shape
             THEN Raised("RuntimeError")
             ELSE copy_images_from(
                      [ix \in DOMAIN data |->
                          IF ix[1] = i - 1 /\ SubSeq(ix, 2, 4) \in DOMAIN img.data
                          THEN img.data[SubSeq(ix, 2, 4)]
                          ELSE data[ix]],
                      shape, tensor_list, i + 1)

batch_images(tensor_list, size_divisible, fill_color) ==
    IF Len(tensor_list) = 0
    THEN Raised("IndexError")
    ELSE IF Len(tensor_list[1].shape) = 3
    THEN LET batch_shape == batch_shape_of([i \in DOMAIN tensor_list |-> tensor_list[i].shape],
                                           size_divisible)
             tensor_batched == [ix \in Indices(batch_shape) |-> fill_color]
         IN  copy_images_from(tensor_batched, batch_shape, tensor_list, 1)
    ELSE Raised("ValueError")

MaxSide == 2

MaxImages == 2

MaxStride == 3

Channels == {1, 3}

\* Image number k of a list, of a shape: every element tells k and its index.
Image(k, shape) ==
    [shape |-> shape,
     data |-> [ix \in Indices(shape) |-> 1000 * k + 100 * ix[1] + 10 * ix[2] + ix[3]]]

ImageShapes == {<<c, h, w>> : c \in Channels, h \in 1..MaxSide, w \in 1..MaxSide}

ImageLists ==
    UNION {{[k \in 1..n |-> Image(k, shapes[k])] : shapes \in [1..n -> ImageShapes]} :
              n \in 0..MaxImages}

fill_color_default == 114

InitB ==
    /\ bi_pc = "call"
    /\ bi_list \in ImageLists
    /\ bi_div \in 1..MaxStride
    /\ bi_fill \in {0, fill_color_default}
    /\ bi_res = NotCalled

IdleB ==
    /\ bi_pc = "idle"
    /\ bi_list = <<>>
    /\ bi_div = 0
    /\ bi_fill = 0
    /\ bi_res = NotCalled

CallBatchImages ==
    /\ bi_pc = "call"
    /\ bi_res' = batch_images(bi_list, bi_div, bi_fill)
    /\ bi_pc' = "done"
    /\ UNCHANGED <<bi_list, bi_div, bi_fill>>
    /\ UNCHANGED <<varsR, varsA, varsU, varsL, varsF, varsP, varsN, varsK, varsT>>

NextB == CallBatchImages

-----------------------------------------------------------------------------
(* YOLOTransform.forward.  Lists and dictionaries are mutable objects held *)
(* by reference: the heap is a sequence of objects and a reference is a    *)
(* position in it.  A tensor is a value [id, op, device, shape]: no        *)
(* operation of forward writes into a tensor, each makes a new one, whose   *)
(* op tells how it was made from the tensor id.                            *)

FTensor(id, op, device, shape) == [id |-> id, op |-> op, device |-> device, shape |-> shape]

ListObj(items) == [kind |-> "list", items |-> items, d |-> NoAttrs]

DictObj(d) == [kind |-> "dict", items |-> <<>>, d |-> d]

\* v.to(device): the tensor itself when it is on the device, else a copy there.
to(v, device) == [v EXCEPT !.device = device]

\* tensor.shape[-2:]
last_two(shape) == SubSeq(shape, Len(shape) - 1, Len(shape))

\* F.interpolate by scale_factor num/den: the two last sizes become
\* floor(size * num / den).  The sizes and scales of the model are powers of
\* two, for which the floats of the code are exact.
interpolate(t, num, den) ==
    LET n == Len(t.shape)
    IN  [t EXCEPT !.op = "interpolate",
                  !.shape = [k \in 1..n |-> IF k >= n - 1 THEN (t.shape[k] * num) \div den
                                            ELSE t.shape[k]]]

\* normalize_boxes: a new tensor of the same shape.
normalize_boxes(boxes, original_size) == [boxes EXCEPT !.op = "normalize_boxes"]

\* The scale of _resize_image_and_masks as a fraction <<num, den>>:
\* min(self_min_size / min(h, w), self_max_size / max(h, w)).
scale_of(shape, self_min_size, self_max_size) ==
    LET hw == last_two(shape)
        min_size == Min(hw[1], hw[2])
        max_size == Max(hw[1], hw[2])
    IN  IF self_min_size * max_size <= self_max_size * min_size
        THEN <<self_min_size, min_size>>
        ELSE <<self_max_size, max_size>>

\* resize, with _resize_image_and_masks: the image is interpolated; with a
\* target, its masks (when it has any) and then its boxes are replaced in the
\* target dictionary.  target is a reference, 0 for None.
resize(heap, image, target, size, max_size) ==
    LET scale == scale_of(image.shape, size, max_size)
        resized == interpolate(image, scale[1], scale[2])
    IN  IF target = 0
        THEN [heap |-> heap, image |-> resized, exc |-> "none"]
        ELSE LET masked ==
                     IF "masks" \in DOMAIN heap[target].d
                     THEN [heap EXCEPT ![target].d["masks"] =
                               interpolate(heap[target].d["masks"], scale[1], scale[2])]
                     ELSE heap
             IN  IF "boxes" \notin DOMAIN masked[target].d
                 THEN [heap |-> masked, image |-> resized, exc |-> "KeyError"]
                 ELSE [heap |-> [masked EXCEPT ![target].d["boxes"] =
                                    normalize_boxes(masked[target].d["boxes"],
                                                    last_two(image.shape))],
                       image |-> resized, exc |-> "none"]

\* The mutant of copy_targets: the caller's targets are used as they are.
copy_targets_aliased(heap, targets, device) == [heap |-> heap, ref |-> targets]

\* Lines 87-98: a new list of new dictionaries, each with the keys of the
\* caller's dictionary and its values moved to the device.
copy_targets(heap, targets, device) ==
    IF targets = 0
    THEN [heap |-> heap, ref |-> 0]
    ELSE LET n == Len(heap[targets].items)
             base == Len(heap)
             copies == [k \in 1..n |->
                           LET t == heap[heap[targets].items[k]].d
                           IN  DictObj([key \in DOMAIN t |-> to(t[key], device)])]
         IN  [heap |-> heap \o copies \o <<ListObj([k \in 1..n |-> base + k])>>,
              ref |-> base + n + 1]

\* The mutant of is_3d: every image passes the check.
is_any_d(image) == TRUE

\* image.dim() == 3
is_3d(image) == Len(image.shape) = 3

\* The sizes resize may choose from: any of min_size in training (torch_choice),
\* the last of min_size otherwise.
sizes_of(self) ==
    IF self.training
    THEN {self.min_size[k] : k \in DOMAIN self.min_size}
    ELSE {self.min_size[Len(self.min_size)]}

\* Lines 128-139: the batched targets: one row per object of every target
\* that has objects; torch.cat of an empty list is a RuntimeError.
targets_batched_of(heap, targets) ==
    IF targets = 0
    THEN Returned(None)
    ELSE LET items == heap[targets].items
         IN  IF \E k \in DOMAIN items : "labels" \notin DOMAIN heap[items[k]].d
             THEN Raised("KeyError")
             ELSE LET rows == [k \in DOMAIN items |->
                                  heap[items[k]].d["labels"].shape[1]]
                  IN  IF \A k \in DOMAIN rows : rows[k] = 0
                      THEN Raised("RuntimeError")
                      ELSE Returned([merged |-> rows])

\* batch_images as forward calls it, by the shapes: the shape of the batch.
\* Only 3-dimensional images come out of the loop of forward; for others,
\* batch_images raises: ValueError (line 252) when the first image is not
\* 3-dimensional, IndexError (maxes[index], img.shape[2]) when a later one is.
batch_images_shape(shapes, size_divisible) ==
    IF Len(shapes) = 0
    THEN Raised("IndexError")
    ELSE IF Len(shapes[1]) # 3
    THEN Raised("ValueError")
    ELSE IF \E k \in DOMAIN shapes : Len(shapes[k]) # 3
    THEN Raised("IndexError")
    ELSE Returned(batch_shape_of(shapes, size_divisible))

MaxForwardImages == 2

\* The images a caller passes: 3-dimensional ones, and a 2- and a
\* 4-dimensional one.
ForwardShapes == {<<3, 2, 4>>, <<3, 4, 4>>, <<2, 4>>, <<1, 3, 2, 2>>}

\* The targets a caller passes with image k: boxes and labels for one or no
\* object, with or without masks, on the images' device or on another; and
\* one without boxes.
ForwardTargets(k) ==
    { ("boxes" :> FTensor(10 * k + 1, "given", "cpu", <<1, 4>>))
        @@ ("labels" :> FTensor(10 * k + 2, "given", "cpu", <<1>>)),
      ("boxes" :> FTensor(10 * k + 1, "given", "cpu", <<0, 4>>))
        @@ ("labels" :> FTensor(10 * k + 2, "given", "cpu", <<0>>)),
      ("boxes" :> FTensor(10 * k + 1, "given", "cpu", <<1, 4>>))
        @@ ("labels" :> FTensor(10 * k + 2, "given", "cpu", <<1>>))
        @@ ("masks" :> FTensor(10 * k + 3, "given", "cpu", <<1, 2, 4>>)),
      ("boxes" :> FTensor(10 * k + 1, "given", "cuda", <<1, 4>>))
        @@ ("labels" :> FTensor(10 * k + 2, "given", "cuda", <<1>>)),
      ("labels" :> FTensor(10 * k + 2, "given", "cpu", <<1>>))
        @@ ("masks" :> FTensor(10 * k + 3, "given", "cpu", <<1, 2, 4>>)) }

\* The lists of m target dictionaries, the k-th one for image k.
TargetLists(m) ==
    {f \in [1..m -> UNION {ForwardTargets(k) : k \in 1..m}] :
        \A k \in 1..m : f[k] \in ForwardTargets(k)}

\* The heaps a caller passes with n images: the images list at reference 1
\* and, with targets, the targets list at reference 2 and its dictionaries,
\* one per image or one too few.
CallerHeaps(n) ==
    LET images == {[k \in 1..n |-> FTensor(k, "given", "cpu", shapes[k])] :
                      shapes \in [1..n -> ForwardShapes]}
    IN  {<<ListObj(im)>> : im \in images}
        \cup UNION {{<<ListObj(im), ListObj([k \in 1..m |-> 2 + k])>>
                         \o [k \in 1..m |-> DictObj(f[k])] : im \in images, f \in TargetLists(m)} :
                       m \in {n - 1, n} \cap Nat}

InitF ==
    /\ fw_pc = "call"
    /\ fw_self \in [min_size : {<<2, 4>>}, max_size : {4}, size_divisible : {4},
                    fill_color : {fill_color_default}, training : BOOLEAN]
    /\ fw_heap \in UNION {CallerHeaps(n) : n \in 0..MaxForwardImages}
    /\ fw_heap0 = fw_heap
    /\ fw_targets_arg = IF Len(fw_heap) > 1 THEN 2 ELSE 0
    /\ fw_images = 0
    /\ fw_targets = 0
    /\ fw_i = 0
    /\ fw_batched = FALSE
    /\ fw_out = None
    /\ fw_res = NotCalled

IdleF ==
    /\ fw_pc = "idle"
    /\ fw_self = None
    /\ fw_heap = <<>>
    /\ fw_heap0 = <<>>
    /\ fw_targets_arg = 0
    /\ fw_images = 0
    /\ fw_targets = 0
    /\ fw_i = 0
    /\ fw_batched = FALSE
    /\ fw_out = None
    /\ fw_res = NotCalled

\* Lines 85-98: the device of the first image, the local list of the images
\* and the copy of the targets.
ForwardBegin ==
    /\ fw_pc = "call"
    /\ IF Len(fw_heap[1].items) = 0
       THEN /\ fw_pc' = "raised"
            /\ fw_res' = Raised("IndexError")
            /\ UNCHANGED <<fw_heap, fw_images, fw_targets>>
       ELSE \E out \in {copy_targets(Append(fw_heap, ListObj(fw_heap[1].items)),
                                     fw_targets_arg, fw_heap[1].items[1].device)} :
                /\ fw_images' = Len(fw_heap) + 1
                /\ fw_heap' = out.heap
                /\ fw_targets' = out.ref
                /\ fw_pc' = "loop"
                /\ UNCHANGED fw_res
    /\ UNCHANGED <<fw_self, fw_heap0, fw_targets_arg, fw_i, fw_batched, fw_out>>
    /\ UNCHANGED <<varsR, varsA, varsU, varsL, varsB, varsP, varsN, varsK, varsT>>

\* Lines 100-113: one image of the loop.
ForwardLoop ==
    /\ fw_pc = "loop"
    /\ fw_i < Len(fw_heap[fw_images].items)
    /\ LET image == fw_heap[fw_images].items[fw_i + 1]
       IN  IF fw_targets # 0 /\ fw_i >= Len(fw_heap[fw_targets].items)
           THEN /\ fw_pc' = "raised"
                /\ fw_res' = Raised("IndexError")
                /\ UNCHANGED <<fw_heap, fw_i>>
           ELSE IF ~is_3d(image)
           THEN /\ fw_pc' = "raised"
                /\ fw_res' = Raised("ValueError")
                /\ UNCHANGED <<fw_heap, fw_i>>
           ELSE \E size \in sizes_of(fw_self) :
                \E out \in {resize(fw_heap, image,
                                   IF fw_targets = 0 THEN 0
                                   ELSE fw_heap[fw_targets].items[fw_i + 1],
                                   size, fw_self.max_size)} :
                    IF out.exc # "none"
                    THEN /\ fw_pc' = "raised"
                         /\ fw_res' = Raised(out.exc)
                         /\ fw_heap' = out.heap
                         /\ UNCHANGED fw_i
                    ELSE /\ fw_heap' = [out.heap EXCEPT ![fw_images].items[fw_i + 1] = out.image]
                         /\ fw_i' = fw_i + 1
                         /\ UNCHANGED <<fw_pc, fw_res>>
    /\ UNCHANGED <<fw_self, fw_heap0, fw_targets_arg, fw_images, fw_targets, fw_batched, fw_out>>
    /\ UNCHANGED <<varsR, varsA, varsU, varsL, varsB, varsP, varsN, varsK, varsT>>

\* Lines 115-126: the images are batched into a NestedTensor.
ForwardBatch ==
    /\ fw_pc = "loop"
    /\ fw_i >= Len(fw_heap[fw_images].items)
    /\ LET images == fw_heap[fw_images].items
           shapes == [k \in DOMAIN images |-> images[k].shape]
           batch == batch_images_shape(shapes, fw_self.size_divisible)
       IN  IF batch.kind = "raised"
           THEN /\ fw_pc' = "raised"
                /\ fw_res' = batch
                /\ UNCHANGED fw_out
           ELSE /\ fw_out' = [tensors |-> FTensor(0, "batch_images", images[1].device, batch.val),
                              image_sizes |-> [k \in DOMAIN images |-> last_two(shapes[k])]]
                /\ fw_pc' = "targets"
                /\ UNCHANGED fw_res
    /\ fw_batched' = TRUE
    /\ UNCHANGED <<fw_self, fw_heap, fw_heap0, fw_targets_arg, fw_images, fw_targets, fw_i>>
    /\ UNCHANGED <<varsR, varsA, varsU, varsL, varsB, varsP, varsN, varsK, varsT>>

\* Lines 128-141: the targets are batched and the pair is returned.
ForwardReturn ==
    /\ fw_pc = "targets"
    /\ LET batched == targets_batched_of(fw_heap, fw_targets)
       IN  IF batched.kind = "raised"
           THEN fw_pc' = "raised" /\ fw_res' = batched
           ELSE fw_pc' = "returned" /\ fw_res' = Returned(<<fw_out, batched.val>>)
    /\ UNCHANGED <<fw_self, fw_heap, fw_heap0, fw_targets_arg, fw_images, fw_targets, fw_i,
                   fw_batched, fw_out>>
    /\ UNCHANGED <<varsR, varsA, varsU, varsL, varsB, varsP, varsN, varsK, varsT>>

NextF == ForwardBegin \/ ForwardLoop \/ ForwardBatch \/ ForwardReturn

-----------------------------------------------------------------------------
(* PathAggregationNetwork.  A feature map is a record [ok, c, h, w]: its   *)
(* channels, height and width; a module is a record of its kind and of the *)
(* arguments it was constructed with.  A module called with a feature map  *)
(* it cannot take, and torch.cat of feature maps of different sizes, raise *)
(* RuntimeError: the feature map that would result is Failed, and so is    *)
(* everything computed from it.                                            *)

FeatureMap(c, h, w) == [ok |-> TRUE, c |-> c, h |-> h, w |-> w]

Failed == [ok |-> FALSE, c |-> 0, h |-> 0, w |-> 0]

\* BottleneckCSP(c1, c2, n=1, shortcut=False) of .common: takes c1 channels,
\* gives c2 channels of the same size.
BottleneckCSP(c1, c2) == [kind |-> "BottleneckCSP", c1 |-> c1, c2 |-> c2, k |-> 1, s |-> 1]

\* Conv(c1, c2, k, s) of .common: a convolution of kernel k, stride s and
\* padding k // 2.
Conv(c1, c2, k, s) == [kind |-> "Conv", c1 |-> c1, c2 |-> c2, k |-> k, s |-> s]

\* nn.Upsample(scale_factor)
Upsample(scale_factor) == [kind |-> "Upsample", c1 |-> 0, c2 |-> 0, k |-> 0, s |-> scale_factor]

\* The output size of a convolution of kernel k, stride s, padding k // 2.
conv_size(size, k, s) == ((size + 2 * (k \div 2) - k) \div s) + 1

\* module(t)
call(module, t) ==
    IF ~t.ok
    THEN Failed
    ELSE IF module.kind = "Upsample"
    THEN FeatureMap(t.c, t.h * module.s, t.w * module.s)
    ELSE IF t.c # module.c1
    THEN Failed
    ELSE FeatureMap(module.c2, conv_size(t.h, module.k, module.s),
                    conv_size(t.w, module.k, module.s))

\* torch.cat([a, b], dim=1)
cat(a, b) ==
    IF ~a.ok \/ ~b.ok \/ a.h # b.h \/ a.w # b.w
    THEN Failed
    ELSE FeatureMap(a.c + b.c, a.h, a.w)

\* The mutant of inner_blocks: the second block takes in_channels_list[1]
\* channels.
inner_blocks_narrow(in_channels_list) ==
    << BottleneckCSP(in_channels_list[3], in_channels_list[3]),
       Conv(in_channels_list[3], in_channels_list[2], 1, 1),
       Upsample(2),
       BottleneckCSP(in_channels_list[2], in_channels_list[2]),
       Conv(in_channels_list[2], in_channels_list[1], 1, 1),
       Upsample(2) >>

\* Lines 54-61 (in_channels_list[k] of the code is in_channels_list[k + 1]).
inner_blocks(in_channels_list) ==
    << BottleneckCSP(in_channels_list[3], in_channels_list[3]),
       Conv(in_channels_list[3], in_channels_list[2], 1, 1),
       Upsample(2),
       BottleneckCSP(in_channels_list[3], in_channels_list[2]),
       Conv(in_channels_list[2], in_channels_list[1], 1, 1),
       Upsample(2) >>

\* Lines 65-71.
layer_blocks(in_channels_list) ==
    << BottleneckCSP(in_channels_list[2], in_channels_list[1]),
       Conv(in_channels_list[1], in_channels_list[1], 3, 2),
       BottleneckCSP(in_channels_list[2], in_channels_list[2]),
       Conv(in_channels_list[2], in_channels_list[2], 3, 2),
       BottleneckCSP(in_channels_list[3], in_channels_list[3]) >>

\* PathAggregationNetwork(in_channels_list)
PathAggregationNetwork(in_channels_list) ==
    IF Len(in_channels_list) # 3
    THEN Raised("AssertionError")
    ELSE Returned([inner_blocks |-> inner_blocks(in_channels_list),
                   layer_blocks |-> layer_blocks(in_channels_list)])

\* Lines 89-100, descending the pyramid: inners.
descend(self, x) ==
    LET inner1 == call(self.inner_blocks[2], call(self.inner_blocks[1], x[3]))
        joined1 == cat(call(self.inner_blocks[3], inner1), x[2])
        inner2 == call(self.inner_blocks[5], call(self.inner_blocks[4], joined1))
        joined2 == cat(call(self.inner_blocks[6], inner2), x[1])
    IN  <<joined2, inner2, inner1>>

\* Lines 107-111, the loop from idx on.
RECURSIVE ascend_from(_, _, _, _, _)
ascend_from(self, inners, results, last_inner, idx) ==
    IF idx >= Len(inners) - 1
    THEN results
    ELSE LET down == call(self.layer_blocks[2 * idx + 2], last_inner)
             joined == cat(down, inners[idx + 2])
             out == call(self.layer_blocks[2 * idx + 3], joined)
         IN  ascend_from(self, inners, Append(results, out), out, idx + 1)

\* Lines 103-113, ascending the pyramid: results.
ascend(self, inners) ==
    LET last_inner == call(self.layer_blocks[1], inners[1])
    IN  ascend_from(self, inners, <<last_inner>>, last_inner, 0)

\* Whether some feature map of a list could not be computed.
raises(maps) == \E k \in DOMAIN maps : ~maps[k].ok

MaxGrid == 2

ChannelCounts == {1, 2, 4, 8}

\* The channel lists a caller passes: of 2 to 4 channel counts.
ChannelLists == UNION {[1..n -> ChannelCounts] : n \in 2..4}

\* The feature maps of a pyramid over a coarsest map of h by w: one per
\* channel count, each level twice the size of the next.
RECURSIVE Pow2(_)
Pow2(n) == IF n = 0 THEN 1 ELSE 2 * Pow2(n - 1)

Pyramid(in_channels_list, h, w) ==
    [k \in DOMAIN in_channels_list |->
        FeatureMap(in_channels_list[k], h * Pow2(Len(in_channels_list) - k),
                   w * Pow2(Len(in_channels_list) - k))]

InitP ==
    /\ pn_pc = "new"
    /\ pn_in \in ChannelLists
    /\ \E h \in 1..MaxGrid, w \in 1..MaxGrid : pn_x = Pyramid(pn_in, h, w)
    /\ pn_self = None
    /\ pn_inners = <<>>
    /\ pn_res = NotCalled

IdleP ==
    /\ pn_pc = "idle"
    /\ pn_in = <<>>
    /\ pn_x = <<>>
    /\ pn_self = None
    /\ pn_inners = <<>>
    /\ pn_res = NotCalled

\* Lines 43-72: the constructor.
PANConstruct ==
    /\ pn_pc = "new"
    /\ LET made == PathAggregationNetwork(pn_in)
       IN  IF made.kind = "raised"
           THEN pn_pc' = "raised" /\ pn_res' = made /\ UNCHANGED pn_self
           ELSE pn_pc' = "built" /\ pn_self' = made.val /\ UNCHANGED pn_res
    /\ UNCHANGED <<pn_in, pn_x, pn_inners>>
    /\ UNCHANGED <<varsR, varsA, varsU, varsL, varsB, varsF, varsN, varsK, varsT>>

\* Lines 86-100: forward, descending.
PANDescend ==
    /\ pn_pc = "built"
    /\ LET inners == descend(pn_self, pn_x)
       IN  IF raises(inners)
           THEN pn_pc' = "raised" /\ pn_res' = Raised("RuntimeError") /\ UNCHANGED pn_inners
           ELSE pn_pc' = "descended" /\ pn_inners' = inners /\ UNCHANGED pn_res
    /\ UNCHANGED <<pn_in, pn_x, pn_self>>
    /\ UNCHANGED <<varsR, varsA, varsU, varsL, varsB, varsF, varsN, varsK, varsT>>

\* Lines 103-113: forward, ascending, and its return.
PANAscend ==
    /\ pn_pc = "descended"
    /\ LET results == ascend(pn_self, pn_inners)
       IN  IF raises(results)
           THEN pn_pc' = "raised" /\ pn_res' = Raised("RuntimeError")
           ELSE pn_pc' = "returned" /\ pn_res' = Returned(results)
    /\ UNCHANGED <<pn_in, pn_x, pn_self, pn_inners>>
    /\ UNCHANGED <<varsR, varsA, varsU, varsL, varsB, varsF, varsN, varsK, varsT>>

NextP == PANConstruct \/ PANDescend \/ PANAscend

-----------------------------------------------------------------------------
(* NonMaxSupressionOp.forward: the rows [batch index, 0, 100 + position]   *)
(* of a random number of detections.                                       *)

randint_high == 100

arange_start == 100

\* torch.randint(0, batch, (num_det,)).sort()[0]: the non-decreasing lists
\* of num_det batch indices, each told by where it steps from one index to
\* the next.
sorted_batches(batch, num_det) ==
    {[i \in 1..num_det |-> Cardinality({j \in 1..(batch - 1) : cut[j] < i})] :
        cut \in {c \in [1..(batch - 1) -> 0..num_det] :
                    \A j \in 1..(batch - 2) : c[j] <= c[j + 1]}}

\* Lines 126-129: selected_indices, one row per detection.
selected_indices(batches) ==
    [i \in DOMAIN batches |-> <<batches[i], 0, arange_start + i - 1>>]

MaxBatch == 2

\* The values of max_output_boxes_per_class a caller passes; 100 is the default.
MaxOutputBoxes == {1, 10, 100}

InitN ==
    /\ nm_pc = "call"
    /\ nm_batch \in 1..MaxBatch
    /\ nm_max \in MaxOutputBoxes
    /\ nm_res = NotCalled

IdleN ==
    /\ nm_pc = "idle"
    /\ nm_batch = 0
    /\ nm_max = 0
    /\ nm_res = NotCalled

\* Lines 123-130.
NmsForward ==
    /\ nm_pc = "call"
    /\ \E num_det \in 0..randint_high :
       \E batches \in sorted_batches(nm_batch, num_det) :
           nm_res' = Returned(selected_indices(batches))
    /\ nm_pc' = "done"
    /\ UNCHANGED <<nm_batch, nm_max>>
    /\ UNCHANGED <<varsR, varsA, varsU, varsL, varsB, varsF, varsP, varsK, varsT>>

NextN == NmsForward

-----------------------------------------------------------------------------
(* FakePostProcess.  The module is the function from the names of its      *)
(* attributes to their values; thresholds are in hundredths and the        *)
(* convert matrix in halves.  The tensor x is a record of its shape        *)
(* [batch, boxes, 5 + classes] and of its device attribute.                *)

\* A torch.device: a value, not a function.
TorchDevice(type) == [kind |-> "torch.device", type |-> type]

\* callable(v): whether v() is a call; v() of anything else is a TypeError.
callable(v) == v.kind \in {"function", "method"}

\* Lines 53-64: the attributes __init__ sets.
FakePostProcess(size, iou_thresh, score_thresh, detections_per_img) ==
    ("detections_per_img" :> detections_per_img)
        @@ ("iou_threshold" :> iou_thresh)
        @@ ("score_threshold" :> score_thresh)
        @@ ("size" :> size)
        @@ ("convert_matrix" :> <<2, 0, 2, 0, 0, 2, 0, 2, -1, 0, 1, 0, 0, -1, 0, 1>>)

\* self.name of a module: AttributeError for a name it has not.
module_getattr(self, name) ==
    IF name \in DOMAIN self THEN Returned(self[name]) ELSE Raised("AttributeError")

\* Lines 67-81: forward up to the call of the NMS operator: the arguments it
\* passes to it, or what it raises before.
before_nms(self, x) ==
    IF ~callable(x.device)
    THEN Raised("TypeError")
    ELSE LET detections_per_img == module_getattr(self, "detections_per_img")
             iou_threshold == module_getattr(self, "iou_thresh")
             score_threshold == module_getattr(self, "score_thresh")
         IN  IF detections_per_img.kind = "raised" THEN detections_per_img
             ELSE IF iou_threshold.kind = "raised" THEN iou_threshold
             ELSE IF score_threshold.kind = "raised" THEN score_threshold
             ELSE Returned(<<detections_per_img.val, iou_threshold.val, score_threshold.val>>)

\* Lines 89-97: one row per selected index: the batch index X, and the box,
\* the class and the score at [X, Y]; an index outside x is an IndexError.
after_nms(x, selected) ==
    IF \E i \in DOMAIN selected : selected[i][1] >= x.shape[1] \/ selected[i][3] >= x.shape[2]
    THEN Raised("IndexError")
    ELSE Returned([i \in DOMAIN selected |->
                      [X |-> selected[i][1],
                       res_boxes |-> <<selected[i][1], selected[i][3]>>,
                       res_classes |-> <<selected[i][1], selected[i][3]>>,
                       res_scores |-> <<selected[i][1], selected[i][3]>>]])

MaxFakeBatch == 2

MaxFakeBoxes == 2

MaxFakeClasses == 2

\* The arguments a caller constructs the module with.
FakeArguments ==
    [size : {320, 640}, iou_thresh : {45, 50}, score_thresh : {25, 35},
     detections_per_img : {1, 100}]

InitK ==
    /\ fk_pc = "new"
    /\ fk_args \in FakeArguments
    /\ fk_self = None
    /\ fk_x \in [shape : {<<b, n, 5 + c>> : b \in 1..MaxFakeBatch, n \in 1..MaxFakeBoxes,
                                            c \in 1..MaxFakeClasses},
                 device : {TorchDevice("cpu")}]
    /\ fk_nms = NotCalled
    /\ fk_res = NotCalled

IdleK ==
    /\ fk_pc = "idle"
    /\ fk_args = None
    /\ fk_self = None
    /\ fk_x = None
    /\ fk_nms = NotCalled
    /\ fk_res = NotCalled

\* Lines 53-64: the constructor.
FakeConstruct ==
    /\ fk_pc = "new"
    /\ fk_self' = FakePostProcess(fk_args.size, fk_args.iou_thresh, fk_args.score_thresh,
                                  fk_args.detections_per_img)
    /\ fk_pc' = "built"
    /\ UNCHANGED <<fk_args, fk_x, fk_nms, fk_res>>
    /\ UNCHANGED <<varsR, varsA, varsU, varsL, varsB, varsF, varsP, varsN, varsT>>

\* Lines 66-97: forward.
FakeForward ==
    /\ fk_pc = "built"
    /\ LET passed == before_nms(fk_self, fk_x)
       IN  IF passed.kind = "raised"
           THEN fk_res' = passed /\ UNCHANGED fk_nms
           ELSE /\ fk_nms' = passed
                /\ \E num_det \in 0..randint_high :
                   \E batches \in sorted_batches(fk_x.shape[1], num_det) :
                       fk_res' = after_nms(fk_x, selected_indices(batches))
    /\ fk_pc' = "done"
    /\ UNCHANGED <<fk_args, fk_self, fk_x>>
    /\ UNCHANGED <<varsR, varsA, varsU, varsL, varsB, varsF, varsP, varsN, varsT>>

NextK == FakeConstruct \/ FakeForward

-----------------------------------------------------------------------------
(* PredictorTRT.postprocessing.  A row of pred_logits is a record          *)
(* [box, conf, cls]: the box as <<cx, cy, w, h>>, the box confidence and   *)
(* the class confidences in tenths; scores and thresholds are in           *)
(* hundredths.  The numbers of the model are exact in the code's floats.   *)

\* box_convert(in_fmt="cxcywh", out_fmt="xyxy"); the widths and heights of
\* the model are even.
box_convert_xyxy(box) ==
    <<box[1] - box[3] \div 2, box[2] - box[4] \div 2,
      box[1] + box[3] \div 2, box[2] + box[4] \div 2>>

\* _decode_pred_logits: the boxes of the anchors and, per anchor and class,
\* the class confidence times the box confidence.
_decode_pred_logits(rows) ==
    [boxes |-> [a \in DOMAIN rows |-> box_convert_xyxy(rows[a].box)],
     scores |-> [a \in DOMAIN rows |->
                    [c \in DOMAIN rows[a].cls |-> rows[a].cls[c] * rows[a].conf]]]

\* The mutant of above: scores equal to the threshold pass too.
at_least(score, thresh) == score >= thresh

\* scores > self.score_thresh
above(score, thresh) == score > thresh

\* torch.where(scores > thresh): the (anchor, class) pairs that pass, in
\* row-major order; anchors from 1, classes (labels) from 0.
where_above(scores, thresh) ==
    LET num_classes == IF Len(scores) = 0 THEN 0 ELSE Len(scores[1])
        pairs == [k \in 1..(Len(scores) * num_classes) |->
                     <<((k - 1) \div num_classes) + 1, (k - 1) % num_classes>>]
        passes(pair) == above(scores[pair[1]][pair[2] + 1], thresh)
    IN  SelectSeq(pairs, passes)

\* The area of a box <<x1, y1, x2, y2>>.
box_area(box) == (box[3] - box[1]) * (box[4] - box[2])

\* The area of the intersection of two boxes.
box_inter(a, b) ==
    LET wd == Min(a[3], b[3]) - Max(a[1], b[1])
        ht == Min(a[4], b[4]) - Max(a[2], b[2])
    IN  IF wd > 0 /\ ht > 0 THEN wd * ht ELSE 0

\* Whether the IoU of two boxes is above iou_thresh (hundredths).
iou_above(a, b, iou_thresh) ==
    100 * box_inter(a, b) > iou_thresh * (box_area(a) + box_area(b) - box_inter(a, b))

\* The orders in which a sort by decreasing score may put the candidates:
\* the order of equal scores is not fixed.
sort_orders(scores) ==
    {p \in [DOMAIN scores -> DOMAIN scores] :
        /\ \A i, j \in DOMAIN scores : i # j => p[i] # p[j]
        /\ \A i, j \in DOMAIN scores : i < j => scores[p[i]] >= scores[p[j]]}

\* batched_nms, the candidates taken in an order of decreasing score: a
\* candidate is kept unless a kept one of its label overlaps it by more than
\* iou_thresh.  The indices kept (from 1), by decreasing score.
RECURSIVE nms_from(_, _, _, _, _, _)
nms_from(boxes, labels, iou_thresh, sorted, kept, i) ==
    IF i > Len(sorted)
    THEN kept
    ELSE LET cand == sorted[i]
             suppressed == \E k \in DOMAIN kept :
                               /\ labels[kept[k]] = labels[cand]
                               /\ iou_above(boxes[kept[k]], boxes[cand], iou_thresh)
         IN  nms_from(boxes, labels, iou_thresh, sorted,
                      IF suppressed THEN kept ELSE Append(kept, cand), i + 1)

batched_nms(boxes, labels, iou_thresh, sorted) ==
    nms_from(boxes, labels, iou_thresh, sorted, <<>>, 1)

\* keep[: n] for n >= 0
slice_to(keep, n) == SubSeq(keep, 1, Min(n, Len(keep)))

\* Lines 128-140: the detection record of one batch element, the candidates
\* sorted in the order sorted.
detection_of(self, rows, sorted) ==
    LET decoded == _decode_pred_logits(rows)
        found == where_above(decoded.scores, self.score_thresh)
        boxes == [k \in DOMAIN found |-> decoded.boxes[found[k][1]]]
        scores == [k \in DOMAIN found |-> decoded.scores[found[k][1]][found[k][2] + 1]]
        labels == [k \in DOMAIN found |-> found[k][2]]
        keep == slice_to(batched_nms(boxes, labels, self.iou_thresh, sorted),
                         self.detections_per_img)
    IN  [scores |-> [k \in DOMAIN keep |-> scores[keep[k]]],
         labels |-> [k \in DOMAIN keep |-> labels[keep[k]]],
         boxes |-> [k \in DOMAIN keep |-> boxes[keep[k]]]]

\* The scores of the candidates of one batch element, as batched_nms gets them.
candidate_scores(self, rows) ==
    LET decoded == _decode_pred_logits(rows)
        found == where_above(decoded.scores, self.score_thresh)
    IN  [k \in DOMAIN found |-> decoded.scores[found[k][1]][found[k][2] + 1]]

MaxTrtBatch == 2

\* The rows of pred_logits of the model, for two classes: two boxes that
\* overlap by a third, a box far from them, and confidences whose products
\* are below, at and above the thresholds.
AnchorRows ==
    { [box |-> <<2, 2, 4, 4>>, conf |-> 10, cls |-> <<10, 5>>],
      [box |-> <<4, 2, 4, 4>>, conf |-> 10, cls |-> <<5, 0>>],
      [box |-> <<2, 2, 4, 4>>, conf |-> 5, cls |-> <<5, 10>>],
      [box |-> <<20, 20, 2, 2>>, conf |-> 0, cls |-> <<10, 10>>] }

\* pred_logits has the same number of anchors for every batch element.
AnchorCounts == {0, 2}

PredLogits ==
    UNION {[1..b -> [1..n -> AnchorRows]] : b \in 0..MaxTrtBatch, n \in AnchorCounts}

InitT ==
    /\ pt_pc = "loop"
    /\ pt_self \in [score_thresh : {25, 50}, iou_thresh : {30, 45},
                    detections_per_img : {0, 1, 100}]
    /\ pt_logits \in PredLogits
    /\ pt_idx = 0
    /\ pt_detections = <<>>
    /\ pt_res = NotCalled

IdleT ==
    /\ pt_pc = "idle"
    /\ pt_self = None
    /\ pt_logits = <<>>
    /\ pt_idx = 0
    /\ pt_detections = <<>>
    /\ pt_res = NotCalled

\* Lines 126-140: one batch element of the loop.
PostprocessingLoop ==
    /\ pt_pc = "loop"
    /\ pt_idx < Len(pt_logits)
    /\ \E sorted \in sort_orders(candidate_scores(pt_self, pt_logits[pt_idx + 1])) :
           pt_detections' = Append(pt_detections,
                                   detection_of(pt_self, pt_logits[pt_idx + 1], sorted))
    /\ pt_idx' = pt_idx + 1
    /\ UNCHANGED <<pt_pc, pt_self, pt_logits, pt_res>>
    /\ UNCHANGED <<varsR, varsA, varsU, varsL, varsB, varsF, varsP, varsN, varsK>>

\* Line 142: the return.
PostprocessingReturn ==
    /\ pt_pc = "loop"
    /\ pt_idx >= Len(pt_logits)
    /\ pt_res' = Returned(pt_detections)
    /\ pt_pc' = "done"
    /\ UNCHANGED <<pt_self, pt_logits, pt_idx, pt_detections>>
    /\ UNCHANGED <<varsR, varsA, varsU, varsL, varsB, varsF, varsP, varsN, varsK>>

NextT == PostprocessingLoop \/ PostprocessingReturn

-----------------------------------------------------------------------------
(* Specifications: one per component, the other components idle.          *)

InitSpecR == InitR /\ IdleA /\ IdleU /\ IdleL /\ IdleB /\ IdleF /\ IdleP /\ IdleN /\ IdleK /\ IdleT

SpecR == InitSpecR /\ [][NextR]_vars

InitSpecA == InitA /\ IdleR /\ IdleU /\ IdleL /\ IdleB /\ IdleF /\ IdleP /\ IdleN /\ IdleK /\ IdleT

SpecA == InitSpecA /\ [][NextA]_vars

InitSpecU == InitU /\ IdleR /\ IdleA /\ IdleL /\ IdleB /\ IdleF /\ IdleP /\ IdleN /\ IdleK /\ IdleT

SpecU == InitSpecU /\ [][NextU]_vars

InitSpecL == InitL /\ IdleR /\ IdleA /\ IdleU /\ IdleB /\ IdleF /\ IdleP /\ IdleN /\ IdleK /\ IdleT

SpecL == InitSpecL /\ [][NextL]_vars

InitSpecB == InitB /\ IdleR /\ IdleA /\ IdleU /\ IdleL /\ IdleF /\ IdleP /\ IdleN /\ IdleK /\ IdleT

SpecB == InitSpecB /\ [][NextB]_vars

InitSpecF == InitF /\ IdleR /\ IdleA /\ IdleU /\ IdleL /\ IdleB /\ IdleP /\ IdleN /\ IdleK /\ IdleT

SpecF == InitSpecF /\ [][NextF]_vars

InitSpecP == InitP /\ IdleR /\ IdleA /\ IdleU /\ IdleL /\ IdleB /\ IdleF /\ IdleN /\ IdleK /\ IdleT

SpecP == InitSpecP /\ [][NextP]_vars

InitSpecN == InitN /\ IdleR /\ IdleA /\ IdleU /\ IdleL /\ IdleB /\ IdleF /\ IdleP /\ IdleK /\ IdleT

SpecN == InitSpecN /\ [][NextN]_vars

InitSpecK == InitK /\ IdleR /\ IdleA /\ IdleU /\ IdleL /\ IdleB /\ IdleF /\ IdleP /\ IdleN /\ IdleT

SpecK == InitSpecK /\ [][NextK]_vars

InitSpecT == InitT /\ IdleR /\ IdleA /\ IdleU /\ IdleL /\ IdleB /\ IdleF /\ IdleP /\ IdleN /\ IdleK

SpecT == InitSpecT /\ [][NextT]_vars

-----------------------------------------------------------------------------
(* C3.                                                                     *)

\* Whether every segment of path p is present, starting from object o.
RECURSIVE PathPresent(_, _)
PathPresent(o, p) ==
    \/ p = <<>>
    \/ /\ Head(p) \in DOMAIN o.attrs
       /\ PathPresent(o.attrs[Head(p)], Tail(p))

\* The object at the end of path p from o (for a present path).
RECURSIVE ObjectAt(_, _)
ObjectAt(o, p) == IF p = <<>> THEN o ELSE ObjectAt(o.attrs[Head(p)], Tail(p))

\* C3: rgetattr without a default follows the names in order from the root and
\* returns the object reached (the root for an empty list); it fails when a
\* segment is absent on the object reached so far.
C3_RgetattrFollowsPath ==
    (rg_pc = "done" /\ rg_args = <<>>) =>
        IF PathPresent(rg_obj, rg_attr)
        THEN rg_res = Returned(ObjectAt(rg_obj, rg_attr))
        ELSE rg_res = Raised("AttributeError")

\* A call without a default that walked two different segments from the root
\* and returned the tensor it reached.
C3_Witness ==
    /\ rg_pc = "done"
    /\ rg_args = <<>>
    /\ Len(rg_attr) = 2
    /\ rg_attr[1] # rg_attr[2]
    /\ rg_res.kind = "returned"
    /\ rg_res.val.id = "tensor"

-----------------------------------------------------------------------------
(* C4.                                                                     *)

MaxIdx == 11

\* sep.join(parts), the inverse of split: how a dotted name is written.
RECURSIVE Join(_, _)
Join(parts, sep) ==
    IF Len(parts) = 0 THEN <<>>
    ELSE IF Len(parts) = 1 THEN parts[1]
    ELSE parts[1] \o <<sep>> \o Join(Tail(parts), sep)

\* The dotted name "i.rest" of index i and attribute path rest.
DottedName(i, rest) == Join(<<str(i)>> \o rest, ".")

\* What a lookup of path rest in submodule number j of the checkpoint gives:
\* the value there, or a failure when the submodule or a segment is absent.
IsLookupOf(res, sd, j, rest) ==
    IF str(j) \in DOMAIN sd.attrs /\ PathPresent(sd.attrs[str(j)], rest)
    THEN res = Returned(ObjectAt(sd.attrs[str(j)], rest))
    ELSE res.kind = "raised"

\* The statement of C4 for a reading of "a block map is given": the name
\* "i.rest" is looked up at path rest of submodule j, where j = i without a
\* block map and j = block_maps[i] with one (a failure when the block map has
\* no entry for i).
MapsNameToBlock(mapGiven) ==
    ab_pc = "done" =>
        \A i \in 0..MaxIdx : \A rest \in SeqsUpTo(AttrNames, 2) :
            ab_name = DottedName(i, rest) =>
                IF ~mapGiven
                THEN IsLookupOf(ab_res, ab_sd, i, rest)
                ELSE IF str(i) \notin DOMAIN ab_maps.d
                     THEN ab_res.kind = "raised"
                     ELSE \A j \in 0..MaxIdx :
                            ab_maps.d[str(i)] = str(j) => IsLookupOf(ab_res, ab_sd, j, rest)

\* C4 as stated: j = i when no block map is given (None), j = block_maps[i]
\* when a block map is given, whatever it holds.
C4_AsStated == MapsNameToBlock(~ab_maps.isNone)

\* C4 as amended: attach_parameters_block maps the name "i.rest" to the
\* checkpoint value at path rest of submodule j, where j = i when the block
\* map is None or empty and j = block_maps[i] when it is a non-empty
\* dictionary; the part after the first segment is resolved unchanged.
C4_MapsNameToBlock == MapsNameToBlock(~ab_maps.isNone /\ ab_maps.d # NoAttrs)

\* A call with a non-empty block map that sent block "0" to submodule 1 and
\* returned the tensor at the two-segment path b.w there.
C4_Witness ==
    /\ ab_pc = "done"
    /\ ~ab_maps.isNone
    /\ <<"0">> \in DOMAIN ab_maps.d
    /\ ab_name = <<"0", ".", "b", ".", "w">>
    /\ ab_res = Returned(Tensor(3, 201))

-----------------------------------------------------------------------------
(* C5.                                                                     *)

\* Whether entry k of loop g comes before the position updating is at.
BeforePosition(g, k) == g < mu_phase \/ (g = mu_phase /\ k < mu_idx)

\* Whether entry k of loop g holds the checkpoint value its name maps to.
HoldsCheckpointValue(g, k) ==
    LET looked == lookup(mu_self, Heap[mu_sd], g, mu_model0[g][k].name)
    IN  /\ looked.kind = "returned"
        /\ looked.val.id = "tensor"
        /\ looked.val.shape = mu_model0[g][k].val.shape
        /\ mu_model[g][k] = [name |-> mu_model0[g][k].name, val |-> looked.val]

\* C5: a failure during updating leaves updating as an exception at the
\* parameter whose lookup or copy failed; the parameters and buffers before it
\* hold their checkpoint values, and it and every later one are as built.
\* Updating returns only when every parameter and buffer was copied.
C5_ErrorsPropagate ==
    /\ (mu_pc = "raised" /\ mu_phase > 0) =>
          /\ mu_exc \in {"KeyError", "AttributeError", "RuntimeError", "IndexError",
                         "ValueError", "TypeError"}
          /\ mu_idx <= Len(mu_model[mu_phase])
          /\ ~HoldsCheckpointValue(mu_phase, mu_idx)
          /\ \A g \in Loops : \A k \in 1..Len(mu_model[g]) :
                IF BeforePosition(g, k)
                THEN HoldsCheckpointValue(g, k)
                ELSE mu_model[g][k] = mu_model0[g][k]
    /\ mu_pc = "returned" =>
          /\ mu_exc = "none"
          /\ \A g \in Loops : \A k \in 1..Len(mu_model[g]) : HoldsCheckpointValue(g, k)

\* A block index missing from the block map stopped updating after a
\* parameter was copied and before a later one was reached.
C5_Witness ==
    /\ mu_pc = "raised"
    /\ mu_exc = "KeyError"
    /\ \E g \in Loops : \E k \in 1..Len(mu_model[g]) :
          BeforePosition(g, k) /\ mu_model[g][k].val.val >= 100
    /\ \E g \in Loops : \E k \in 1..Len(mu_model[g]) :
          /\ ~BeforePosition(g, k)
          /\ <<g, k>> # <<mu_phase, mu_idx>>
          /\ mu_model[g][k].val.val = 0

-----------------------------------------------------------------------------
(* C1, C2.                                                                 *)

ResultKeys ==
    {"num_classes", "depth_multiple", "width_multiple", "strides", "anchor_grids",
     "use_p6", "size", "state_dict"}

\* C1: for a supported version and a checkpoint the upstream loader can
\* load, load_from_ultralytics completes and returns a dictionary with exactly
\* the keys of ResultKeys, the first five values being those of the checkpoint.
C1_LoadReturnsDict ==
    (lf_pc \in {"returned", "raised"} /\ lf_version \in SupportedVersions /\ lf_file.loadable) =>
        /\ lf_res.kind = "returned"
        /\ DOMAIN lf_res.val = ResultKeys
        /\ lf_res.val.num_classes = lf_file.nc
        /\ lf_res.val.depth_multiple = lf_file.depth_multiple
        /\ lf_res.val.width_multiple = lf_file.width_multiple
        /\ lf_res.val.strides = lf_file.strides
        /\ lf_res.val.anchor_grids = lf_file.anchors

\* C2: with a version outside the supported ones, load_from_ultralytics fails
\* with an assertion error, and the checkpoint is never loaded and no model
\* is ever built.
C2_UnsupportedVersionAsserts ==
    (lf_pc # "idle" /\ lf_version \notin {"r3.1", "r4.0", "r6.0"}) =>
        /\ lf_pc \in {"call", "raised"}
        /\ lf_pc = "raised" => lf_res = Raised("AssertionError")
        /\ ~lf_loaded
        /\ ~lf_built
        /\ lf_ckpt = NoCheckpoint

\* The call with version "r5.0" has failed.
C2_Witness ==
    /\ lf_version = "r5.0"
    /\ lf_pc = "raised"
    /\ lf_res = Raised("AssertionError")

-----------------------------------------------------------------------------
(* C6.                                                                     *)

\* The largest size of the images along dimension d.
LargestSize(d) == CHOOSE m \in {bi_list[i].shape[d] : i \in DOMAIN bi_list} :
                      \A i \in DOMAIN bi_list : bi_list[i].shape[d] <= m

\* Whether p is the smallest multiple of bi_div that is at least m.
IsSmallestMultiple(p, m) ==
    /\ p % bi_div = 0
    /\ p >= m
    /\ \A q \in m..(p - 1) : q % bi_div # 0

-----------------------------------------------------------------------------
(* C7, C8.                                                                 *)

\* The images the caller passed.
GivenImages == fw_heap0[1].items

\* The position (from 1) of the first image that is not 3-dimensional, 0 when
\* every image is.
FirstNot3d ==
    IF \E k \in DOMAIN GivenImages : Len(GivenImages[k].shape) # 3
    THEN CHOOSE k \in DOMAIN GivenImages :
             /\ Len(GivenImages[k].shape) # 3
             /\ \A j \in 1..(k - 1) : Len(GivenImages[j].shape) = 3
    ELSE 0

\* Whether forward, having ended, raised ValueError at the first image that
\* is not 3-dimensional.
RaisedValueErrorThere ==
    /\ fw_pc = "raised"
    /\ fw_res = Raised("ValueError")
    /\ fw_i = FirstNot3d - 1

\* Whether the loop has not gone past the first image that is not
\* 3-dimensional, and nothing was batched or returned.
StoppedThere ==
    /\ fw_i < FirstNot3d
    /\ ~fw_batched
    /\ fw_pc \in {"call", "loop", "raised"}

\* Whether the targets the caller passed are None, or hold an entry for every
\* image up to the first that is not 3-dimensional, with boxes in the entries
\* of the images before it.
TargetsReachIt ==
    \/ fw_targets_arg = 0
    \/ /\ Len(fw_heap0[fw_targets_arg].items) >= FirstNot3d
       /\ \A k \in 1..(FirstNot3d - 1) :
             "boxes" \in DOMAIN fw_heap0[fw_heap0[fw_targets_arg].items[k]].d

C8_ArgumentsUnchanged ==
    \A r \in DOMAIN fw_heap0 : fw_heap[r] = fw_heap0[r]

\* forward returned after it normalised the boxes and resized the masks of a
\* target: the copy holds the new tensors.
C8_Witness ==
    /\ fw_pc = "returned"
    /\ fw_targets # 0
    /\ \E k \in DOMAIN fw_heap[fw_targets].items :
          LET t == fw_heap[fw_heap[fw_targets].items[k]].d
          IN  /\ "masks" \in DOMAIN t
              /\ t["masks"].op = "interpolate"
              /\ t["boxes"].op = "normalize_boxes"
    /\ fw_heap[fw_images].items[1].op = "interpolate"

-----------------------------------------------------------------------------
(* C9.                                                                     *)

\* Whether each channel count is twice the one before.
Doubling == Len(pn_in) = 3 /\ pn_in[2] = 2 * pn_in[1] /\ pn_in[3] = 2 * pn_in[2]

\* C9: a channel list of a length other than 3 is refused by the constructor
\* (AssertionError); for channel counts c0, c1 = 2 c0, c2 = 2 c1 and feature
\* maps of a pyramid, no block is given a channel count it was not made for
\* (nothing raises) and forward returns 3 feature maps of c0, c1 and c2
\* channels, the highest resolution first.
C9_ThreeLevelsDoubling ==
    /\ (pn_pc # "idle" /\ Len(pn_in) # 3) =>
           /\ pn_pc \in {"new", "raised"}
           /\ pn_pc = "raised" => pn_res = Raised("AssertionError")
    /\ (pn_pc = "raised" /\ Len(pn_in) = 3) => pn_res = Raised("RuntimeError")
    /\ Doubling =>
           /\ pn_pc # "raised"
           /\ pn_pc = "returned" =>
                 /\ pn_res.kind = "returned"
                 /\ Len(pn_res.val) = 3
                 /\ \A k \in 1..3 :
                       /\ pn_res.val[k].c = pn_in[k]
                       /\ pn_res.val[k].h = pn_x[k].h
                       /\ pn_res.val[k].w = pn_x[k].w
                 /\ \A k \in 1..2 :
                       /\ pn_res.val[k].h > pn_res.val[k + 1].h
                       /\ pn_res.val[k].w > pn_res.val[k + 1].w

\* forward returned for the channel counts 2, 4, 8.
C9_Witness ==
    /\ pn_pc = "returned"
    /\ pn_in = <<2, 4, 8>>
    /\ pn_x[3].h = 1 /\ pn_x[3].w = 2
    /\ pn_res.val[1] = FeatureMap(2, 4, 8)
    /\ pn_res.val[3] = FeatureMap(8, 1, 2)

-----------------------------------------------------------------------------
(* C10.                                                                    *)

\* The number of rows returned for batch index b.
RowsOf(b) == Cardinality({i \in DOMAIN nm_res.val : nm_res.val[i][1] = b})

\* C10: forward returns at most max_output_boxes_per_class rows for any one
\* batch index.
C10_AtMostMaxPerBatch ==
    nm_pc = "done" => \A b \in 0..(nm_batch - 1) : RowsOf(b) <= nm_max

-----------------------------------------------------------------------------
(* C11.                                                                    *)

\* C11: forward completes; the NMS operator was called with the
\* detections_per_img, iou_thresh and score_thresh given to the constructor.
C11_ForwardCompletes ==
    fk_pc = "done" =>
        /\ fk_res.kind = "returned"
        /\ fk_nms = Returned(<<fk_args.detections_per_img, fk_args.iou_thresh,
                               fk_args.score_thresh>>)

-----------------------------------------------------------------------------
(* C12.                                                                    *)

\* Whether a score, label and box are those of some anchor and class of the
\* rows of one batch element.
IsCandidateOf(rows, score, label, box) ==
    \E a \in DOMAIN rows :
        /\ label + 1 \in DOMAIN rows[a].cls
        /\ score = rows[a].cls[label + 1] * rows[a].conf
        /\ box = <<rows[a].box[1] - rows[a].box[3] \div 2, rows[a].box[2] - rows[a].box[4] \div 2,
                   rows[a].box[1] + rows[a].box[3] \div 2, rows[a].box[2] + rows[a].box[4] \div 2>>

====
